---- MODULE Spec2Model ----
(***************************************************************************)
(* Model of the toki pona word/byte codec: the word dictionary built by    *)
(* Dictionary::from_csv, the DictionarySet (identifier <-> byte), and the  *)
(* Encoder / Decoder sessions of encoding.rs.                              *)
(*                                                                         *)
(* A string is a sequence of one-character strings; a byte is a number in  *)
(* 0..255.  Positions and dictionary indices are 0-based as in the source, *)
(* sequences are 1-based, hence the "+ 1" at every index.                  *)
(* A call that can panic returns [ok |-> FALSE, val |-> message];          *)
(* otherwise [ok |-> TRUE, val |-> value].                                 *)
(***************************************************************************)
EXTENDS Integers, Sequences, FiniteSets, TLC

Ok(v) == [ok |-> TRUE, val |-> v]

Panic(msg) == [ok |-> FALSE, val |-> msg]

\* Option<T>: None is the empty sequence, Some(x) the one-element sequence.
None == <<>>

Some(x) == <<x>>

MinOf(S) == CHOOSE x \in S : \A y \in S : x <= y

MaxOf(S) == CHOOSE x \in S : \A y \in S : y <= x

(***************************************************************************)
(* variation.rs                                                            *)
(***************************************************************************)
Variation == {"Default", "Tipunsin", "Hanzi"}

\* impl Default for Variation
VariationDefault == "Default"

\* impl TryFrom<&str> for Variation
VariationTryFrom(value) ==
    IF value = <<"t", "p">> THEN Ok("Default")
    ELSE IF value = <<"t", "p", "_", "S">> THEN Ok("Tipunsin")
    ELSE IF value = <<"t", "p", "_", "Z", "H">> THEN Ok("Hanzi")
    ELSE Panic("not a known variation")

(***************************************************************************)
(* dict.rs: Dictionary::from_csv                                           *)
(***************************************************************************)
\* str::lines(): split at each "\n"; a final empty line is not produced.
\* The text is cut after a "\n" near its middle and the two parts are
\* split in turn, which gives the lines in order.
RECURSIVE Lines(_)
Lines(text) ==
    IF text = <<>> THEN <<>>
    ELSE LET n  == Len(text)
             nl == {i \in 1..(n - 1) : text[i] = "\n"}
         IN  IF nl = {}
             THEN <<IF text[n] = "\n" THEN SubSeq(text, 1, n - 1) ELSE text>>
             ELSE LET after == {i \in nl : 2 * i >= n}
                      k == IF after # {} THEN MinOf(after) ELSE MaxOf(nl)
                  IN  Lines(SubSeq(text, 1, k)) \o Lines(SubSeq(text, k + 1, n))

\* str::split(sep): always at least one field, the last one may be empty.
RECURSIVE SplitAt(_, _)
SplitAt(str, sep) ==
    LET at == {i \in 1..Len(str) : str[i] = sep}
    IN  IF at = {} THEN <<str>>
        ELSE LET k == MinOf(at)
             IN  <<SubSeq(str, 1, k - 1)>> \o SplitAt(SubSeq(str, k + 1, Len(str)), sep)

\* record.split(',')
Split(record) == SplitAt(record, ",")

\* HashMap built by insert(word, i) for i = 0, 1, ...: a later row replaces
\* an earlier one.  cells[i + 1] is the cell of row i, None when the row
\* inserts nothing.
LookupOf(cells) ==
    [w \in {cells[i][1] : i \in {j \in 1..Len(cells) : cells[j] # None}} |->
        MaxOf({i \in 1..Len(cells) : cells[i] = Some(w)}) - 1]

\* The cell the loop of lines 70-75 sees for variation number j (1-based) in
\* a record: zip stops at the shorter side, and an empty cell is skipped.
VariationCell(fields, j) ==
    IF j + 1 <= Len(fields) /\ fields[j + 1] # <<>> THEN Some(fields[j + 1]) ELSE None

\* variation.words: one push(Some(word)) per non-empty cell, nothing pushed
\* for an empty one.
VariationWords(cells) == SelectSeq(cells, LAMBDA c : c # None)

FromCsv(text) ==
    LET lines == Lines(text) IN
    IF lines = <<>> THEN Panic("expected headers listing variations")
    ELSE
    LET headers == Split(lines[1])
        records == [i \in 1..(Len(lines) - 1) |-> Split(lines[i + 1])]
        names   == [j \in 1..(Len(headers) - 1) |-> VariationTryFrom(headers[j + 1])]
    IN
    IF headers[1] # <<"t", "p">> THEN Panic("expected default variation")
    ELSE IF \E j \in 1..Len(names) : ~names[j].ok THEN Panic("not a known variation")
    ELSE
    LET baseCells == [i \in 1..Len(records) |-> Some(records[i][1])]
        varCells(j) == [i \in 1..Len(records) |-> VariationCell(records[i], j)]
        variations == [j \in 1..Len(names) |->
                          [words  |-> VariationWords(varCells(j)),
                           lookup |-> LookupOf(varCells(j))]]
    IN  Ok([default    |-> [words  |-> [i \in 1..Len(records) |-> records[i][1]],
                            lookup |-> LookupOf(baseCells)],
            \* collect() into a HashMap: the last column of a name wins
            variations |-> [v \in {names[j].val : j \in 1..Len(names)} |->
                               variations[MaxOf({j \in 1..Len(names) : names[j].val = v})]]])

(***************************************************************************)
(* dict_set.rs: DictionarySet.  ds is base_dictionaries.                   *)
(***************************************************************************)
WordIdentifier(d, w) == [dict |-> d, word |-> w]

\* get_identifier: first base table, in list order, that holds the word.
GetIdentifier(ds, word) ==
    LET hits == {d \in 1..Len(ds) : word \in DOMAIN ds[d].default.lookup}
    IN  IF hits = {} THEN None
        ELSE LET d == MinOf(hits)
             IN  Some(WordIdentifier(d - 1, ds[d].default.lookup[word]))

\* Mutant: the base tables are searched before the variant tables.
GetIdentifierVariationBaseFirst(ds, word, variation) ==
    IF GetIdentifier(ds, word) # None THEN GetIdentifier(ds, word)
    ELSE LET hits == {d \in 1..Len(ds) :
                         /\ variation \in DOMAIN ds[d].variations
                         /\ word \in DOMAIN ds[d].variations[variation].lookup}
         IN  IF variation # "Default" /\ hits # {}
             THEN LET d == MinOf(hits)
                  IN  Some(WordIdentifier(d - 1, ds[d].variations[variation].lookup[word]))
             ELSE None

GetIdentifierVariation(ds, word, variation) ==
    IF variation = "Default" THEN GetIdentifier(ds, word)
    ELSE LET hits == {d \in 1..Len(ds) :
                         /\ variation \in DOMAIN ds[d].variations
                         /\ word \in DOMAIN ds[d].variations[variation].lookup}
         IN  IF hits # {}
             THEN LET d == MinOf(hits)
                  IN  Some(WordIdentifier(d - 1, ds[d].variations[variation].lookup[word]))
             ELSE GetIdentifier(ds, word)

\* get_word_variation: every index of the source is checked, a failed one
\* panics.
GetWordVariation(ds, identifier, variation) ==
    IF identifier.dict >= Len(ds) THEN Panic("index out of bounds")
    ELSE
    LET dict == ds[identifier.dict + 1] IN
    IF variation = "Default"
    THEN IF identifier.word >= Len(dict.default.words) THEN Panic("index out of bounds")
         ELSE Ok(dict.default.words[identifier.word + 1])
    ELSE IF variation \notin DOMAIN dict.variations THEN Panic("key not found")
    ELSE IF identifier.word >= Len(dict.variations[variation].words)
         THEN Panic("index out of bounds")
    ELSE IF dict.variations[variation].words[identifier.word + 1] # None
         THEN Ok(dict.variations[variation].words[identifier.word + 1][1])
    ELSE IF identifier.word >= Len(dict.default.words) THEN Panic("index out of bounds")
    ELSE Ok(dict.default.words[identifier.word + 1])

\* The base offset of the single-byte scheme (0x22) and the byte of
\* Instruction::AttachToPrevious (0x21).
BaseOffset == 34

AttachByte == 33

\* Build profiles: with overflow checks (debug) `0x22 + u8` panics when the
\* sum exceeds 255, without them (release) it wraps modulo 2^8.
OverflowChecks == {TRUE, FALSE}

RECURSIVE WordCountBefore(_, _)
WordCountBefore(ds, d) ==
    IF d = 0 THEN 0 ELSE WordCountBefore(ds, d - 1) + Len(ds[d].default.words)

\* Mutant: the position within the dictionary is taken for the global index.
WordToBytesLocalIndex(ds, word, checks) ==
    IF word.dict < Len(ds)
    THEN IF word.word > 255 THEN Panic("index too large")
         ELSE IF BaseOffset + word.word > 255 /\ checks
              THEN Panic("attempt to add with overflow")
         ELSE Ok(<<(BaseOffset + word.word) % 256>>)
    ELSE Panic("not yet implemented")

\* Mutant: the word counts of the dictionaries from word.dict on are summed
\* (skip for take).
WordToBytesSkip(ds, word, checks) ==
    IF word.dict < Len(ds)
    THEN LET index == WordCountBefore(ds, Len(ds)) - WordCountBefore(ds, word.dict)
                         + word.word
         IN  IF index > 255 THEN Panic("index too large")
             ELSE IF BaseOffset + index > 255 /\ checks
                  THEN Panic("attempt to add with overflow")
             ELSE Ok(<<(BaseOffset + index) % 256>>)
    ELSE Panic("not yet implemented")

\* DictionarySet::word_to_bytes
WordToBytes(ds, word, checks) ==
    IF word.dict < Len(ds)
    THEN LET index == WordCountBefore(ds, word.dict) + word.word
         IN  IF index > 255 THEN Panic("index too large")
             ELSE IF BaseOffset + index > 255 /\ checks
                  THEN Panic("attempt to add with overflow")
             ELSE Ok(<<(BaseOffset + index) % 256>>)
    ELSE Panic("not yet implemented")

\* The while loop of word_from_bytes; base_dictionaries[dict_index] panics
\* once dict_index runs past the list.
RECURSIVE WalkDictionaries(_, _, _)
WalkDictionaries(ds, index, dict_index) ==
    IF dict_index >= Len(ds) THEN Panic("index out of bounds")
    ELSE IF index >= Len(ds[dict_index + 1].default.words)
         THEN WalkDictionaries(ds, index - Len(ds[dict_index + 1].default.words),
                               dict_index + 1)
    ELSE Ok(WordIdentifier(dict_index, index))

WordFromBytes(ds, bytes) ==
    IF Len(bytes) = 1 THEN WalkDictionaries(ds, bytes[1], 0)
    ELSE Panic("not yet implemented")

(***************************************************************************)
(* encoding.rs                                                             *)
(***************************************************************************)
TokiPonaWord(word) == [tag |-> "TokiPonaWord", word |-> word]

AttachToPrevious == [tag |-> "AttachToPrevious", word |-> WordIdentifier(0, 0)]

\* Instruction::encode
InstructionEncode(ds, instruction, checks) ==
    IF instruction.tag = "TokiPonaWord" THEN WordToBytes(ds, instruction.word, checks)
    ELSE Ok(<<AttachByte>>)

\* EncodingState::default()
EncodingStateDefault == [variation |-> VariationDefault, prepend_space |-> FALSE]

\* Encoder::new / Decoder::new over an empty writer
EncoderNew == [writer |-> <<>>, state |-> EncodingStateDefault, unencoded |-> <<>>]

DecoderNew == [writer |-> <<>>, state |-> EncodingStateDefault]

\* The buffer length at which write_character flushes before pushing.
FlushLength == 16

\* Encoder::write: the writer is a Vec<u8>, write_all cannot fail; the
\* instruction's own encoding can.
EncoderWrite(ds, e, instruction, checks) ==
    LET bytes == InstructionEncode(ds, instruction, checks)
    IN  IF bytes.ok THEN [ok |-> TRUE, enc |-> [e EXCEPT !.writer = @ \o bytes.val]]
        ELSE [ok |-> FALSE, enc |-> e]

\* What one run of Encoder::encode did: the buffer and the separator-owed
\* flag it found, the word it looked up, whether it returned, and the
\* writer before and after.
Flush(e, word, result) ==
    [buffer |-> e.unencoded, owed |-> e.state.prepend_space, word |-> word,
     ok |-> result.ok, before |-> e.writer, after |-> result.enc.writer,
     left |-> result.enc.unencoded]

\* Mutant: AttachToPrevious is written before the word is looked up.
EncoderEncodeAttachFirst(ds, e, checks) ==
    LET manually_attach_to_previous ==
            e.state.prepend_space /\ ~(e.unencoded # <<>> /\ Head(e.unencoded) = " ")
        toki_pona_word ==
            IF e.state.prepend_space /\ ~manually_attach_to_previous
            THEN Tail(e.unencoded) ELSE e.unencoded
        found == GetIdentifierVariation(ds, toki_pona_word, e.state.variation)
        attached == IF manually_attach_to_previous
                    THEN EncoderWrite(ds, e, AttachToPrevious, checks)
                    ELSE [ok |-> TRUE, enc |-> e]
        result ==
            IF found = None THEN [ok |-> FALSE, enc |-> attached.enc]
            ELSE LET written == EncoderWrite(ds, attached.enc, TokiPonaWord(found[1]), checks)
                 IN  IF ~written.ok THEN written
                     ELSE [ok  |-> TRUE,
                           enc |-> [written.enc EXCEPT !.state.prepend_space = TRUE,
                                                       !.unencoded = <<>>]]
    IN  [ok |-> result.ok, enc |-> result.enc,
         flushed |-> <<Flush(e, toki_pona_word, result)>>]

\* Mutant: an empty fragment is passed over, not looked up.
EncoderEncodeSkipEmpty(ds, e, checks) ==
    LET manually_attach_to_previous ==
            e.state.prepend_space /\ ~(e.unencoded # <<>> /\ Head(e.unencoded) = " ")
        toki_pona_word ==
            IF e.state.prepend_space /\ ~manually_attach_to_previous
            THEN Tail(e.unencoded) ELSE e.unencoded
        found == GetIdentifierVariation(ds, toki_pona_word, e.state.variation)
        result ==
            IF toki_pona_word = <<>> THEN [ok |-> TRUE, enc |-> [e EXCEPT !.unencoded = <<>>]]
            ELSE IF found = None THEN [ok |-> FALSE, enc |-> e]
            ELSE LET attached == IF manually_attach_to_previous
                                 THEN EncoderWrite(ds, e, AttachToPrevious, checks)
                                 ELSE [ok |-> TRUE, enc |-> e]
                     written == EncoderWrite(ds, attached.enc, TokiPonaWord(found[1]), checks)
                 IN  IF ~written.ok THEN written
                     ELSE [ok  |-> TRUE,
                           enc |-> [written.enc EXCEPT !.state.prepend_space = TRUE,
                                                       !.unencoded = <<>>]]
    IN  [ok |-> result.ok, enc |-> result.enc,
         flushed |-> <<Flush(e, toki_pona_word, result)>>]

\* Mutant: a missing leading space calls for AttachToPrevious whether or
\* not a separator is owed.
EncoderEncodeAttachUnowed(ds, e, checks) ==
    LET manually_attach_to_previous == ~(e.unencoded # <<>> /\ Head(e.unencoded) = " ")
        toki_pona_word ==
            IF e.state.prepend_space /\ ~manually_attach_to_previous
            THEN Tail(e.unencoded) ELSE e.unencoded
        found == GetIdentifierVariation(ds, toki_pona_word, e.state.variation)
        result ==
            IF found = None THEN [ok |-> FALSE, enc |-> e]
            ELSE LET attached == IF manually_attach_to_previous
                                 THEN EncoderWrite(ds, e, AttachToPrevious, checks)
                                 ELSE [ok |-> TRUE, enc |-> e]
                     written == EncoderWrite(ds, attached.enc, TokiPonaWord(found[1]), checks)
                 IN  IF ~written.ok THEN written
                     ELSE [ok  |-> TRUE,
                           enc |-> [written.enc EXCEPT !.state.prepend_space = TRUE,
                                                       !.unencoded = <<>>]]
    IN  [ok |-> result.ok, enc |-> result.enc,
         flushed |-> <<Flush(e, toki_pona_word, result)>>]

\* Encoder::encode.  A panic leaves the session as it was when it struck:
\* the buffer is not cleared and prepend_space is not set.
EncoderEncode(ds, e, checks) ==
    LET manually_attach_to_previous ==
            e.state.prepend_space /\ ~(e.unencoded # <<>> /\ Head(e.unencoded) = " ")
        toki_pona_word ==
            IF e.state.prepend_space /\ ~manually_attach_to_previous
            THEN Tail(e.unencoded) ELSE e.unencoded
        found == GetIdentifierVariation(ds, toki_pona_word, e.state.variation)
        result ==
            IF found = None THEN [ok |-> FALSE, enc |-> e]
            ELSE LET attached == IF manually_attach_to_previous
                                 THEN EncoderWrite(ds, e, AttachToPrevious, checks)
                                 ELSE [ok |-> TRUE, enc |-> e]
                     written == EncoderWrite(ds, attached.enc, TokiPonaWord(found[1]), checks)
                 IN  IF ~written.ok THEN written
                     ELSE [ok  |-> TRUE,
                           enc |-> [written.enc EXCEPT !.state.prepend_space = TRUE,
                                                       !.unencoded = <<>>]]
    IN  [ok |-> result.ok, enc |-> result.enc,
         flushed |-> <<Flush(e, toki_pona_word, result)>>]

\* Mutant: only a space flushes.
EncoderWriteCharacterSpaceOnly(ds, e, c, checks) ==
    LET flushed == IF c = " "
                   THEN EncoderEncode(ds, e, checks)
                   ELSE [ok |-> TRUE, enc |-> e, flushed |-> <<>>]
    IN  IF ~flushed.ok THEN flushed
        ELSE [flushed EXCEPT !.enc.unencoded = Append(@, c)]

\* Mutant: the flush comes one character late (len > 16).
EncoderWriteCharacterLate(ds, e, c, checks) ==
    LET flushed == IF c = " " \/ Len(e.unencoded) > FlushLength
                   THEN EncoderEncode(ds, e, checks)
                   ELSE [ok |-> TRUE, enc |-> e, flushed |-> <<>>]
    IN  IF ~flushed.ok THEN flushed
        ELSE [flushed EXCEPT !.enc.unencoded = Append(@, c)]

\* Encoder::write_character
EncoderWriteCharacter(ds, e, c, checks) ==
    LET flushed == IF c = " " \/ Len(e.unencoded) >= FlushLength
                   THEN EncoderEncode(ds, e, checks)
                   ELSE [ok |-> TRUE, enc |-> e, flushed |-> <<>>]
    IN  IF ~flushed.ok THEN flushed
        ELSE [flushed EXCEPT !.enc.unencoded = Append(@, c)]

\* Encoder::write_text: write_character for each character, in order,
\* until one panics.
RECURSIVE EncoderWriteText(_, _, _, _)
EncoderWriteText(ds, e, txt, checks) ==
    IF txt = <<>> THEN [ok |-> TRUE, enc |-> e, flushed |-> <<>>]
    ELSE LET first == EncoderWriteCharacter(ds, e, Head(txt), checks)
         IN  IF ~first.ok THEN first
             ELSE LET rest == EncoderWriteText(ds, first.enc, Tail(txt), checks)
                  IN  [rest EXCEPT !.flushed = first.flushed \o @]

\* Decoder::write into a String
DecoderWrite(d, string) == [d EXCEPT !.writer = @ \o string]

\* Mutant: no space is written before a word.
DecoderExecuteNoSpace(ds, d, instruction) ==
    IF instruction.tag = "TokiPonaWord"
    THEN LET spelling == GetWordVariation(ds, instruction.word, d.state.variation)
         IN  IF ~spelling.ok THEN [ok |-> FALSE, dec |-> d]
             ELSE [ok  |-> TRUE,
                   dec |-> [DecoderWrite(d, spelling.val) EXCEPT !.state.prepend_space = TRUE]]
    ELSE [ok |-> TRUE, dec |-> [d EXCEPT !.state.prepend_space = FALSE]]

\* Mutant: AttachToPrevious flips the separator-owed flag instead of
\* clearing it.
DecoderExecuteAttachToggle(ds, d, instruction) ==
    IF instruction.tag = "TokiPonaWord"
    THEN LET spaced == IF d.state.prepend_space THEN DecoderWrite(d, <<" ">>) ELSE d
             spelling == GetWordVariation(ds, instruction.word, d.state.variation)
         IN  IF ~spelling.ok THEN [ok |-> FALSE, dec |-> spaced]
             ELSE [ok  |-> TRUE,
                   dec |-> [DecoderWrite(spaced, spelling.val)
                               EXCEPT !.state.prepend_space = TRUE]]
    ELSE [ok |-> TRUE, dec |-> [d EXCEPT !.state.prepend_space = ~@]]

\* Decoder::execute
DecoderExecute(ds, d, instruction) ==
    IF instruction.tag = "TokiPonaWord"
    THEN LET spaced == IF d.state.prepend_space THEN DecoderWrite(d, <<" ">>) ELSE d
             spelling == GetWordVariation(ds, instruction.word, d.state.variation)
         IN  IF ~spelling.ok THEN [ok |-> FALSE, dec |-> spaced]
             ELSE [ok  |-> TRUE,
                   dec |-> [DecoderWrite(spaced, spelling.val)
                               EXCEPT !.state.prepend_space = TRUE]]
    ELSE [ok |-> TRUE, dec |-> [d EXCEPT !.state.prepend_space = FALSE]]

\* Mutant: the owed space is written before the byte is decoded.
DecoderReadByteSpaceFirst(ds, d, byte) ==
    IF byte = AttachByte THEN DecoderExecute(ds, d, AttachToPrevious)
    ELSE IF BaseOffset <= byte
    THEN LET word == WordFromBytes(ds, <<byte - BaseOffset>>)
             spaced == IF d.state.prepend_space THEN DecoderWrite(d, <<" ">>) ELSE d
         IN  IF ~word.ok THEN [ok |-> FALSE, dec |-> spaced]
             ELSE DecoderExecute(ds, d, TokiPonaWord(word.val))
    ELSE [ok |-> FALSE, dec |-> d]

\* Mutant: a byte below 0x21 is skipped instead of refused.
DecoderReadByteLenient(ds, d, byte) ==
    IF byte = AttachByte THEN DecoderExecute(ds, d, AttachToPrevious)
    ELSE IF BaseOffset <= byte
    THEN LET word == WordFromBytes(ds, <<byte - BaseOffset>>)
         IN  IF ~word.ok THEN [ok |-> FALSE, dec |-> d]
             ELSE DecoderExecute(ds, d, TokiPonaWord(word.val))
    ELSE [ok |-> TRUE, dec |-> d]

\* Decoder::read_byte
DecoderReadByte(ds, d, byte) ==
    IF byte = AttachByte THEN DecoderExecute(ds, d, AttachToPrevious)
    ELSE IF BaseOffset <= byte
    THEN LET word == WordFromBytes(ds, <<byte - BaseOffset>>)
         IN  IF ~word.ok THEN [ok |-> FALSE, dec |-> d]
             ELSE DecoderExecute(ds, d, TokiPonaWord(word.val))
    ELSE [ok |-> FALSE, dec |-> d]

\* Decoder::read_bytes
RECURSIVE DecoderReadBytes(_, _, _)
DecoderReadBytes(ds, d, bytes) ==
    IF bytes = <<>> THEN [ok |-> TRUE, dec |-> d]
    ELSE LET first == DecoderReadByte(ds, d, Head(bytes))
         IN  IF ~first.ok THEN first
             ELSE DecoderReadBytes(ds, first.dec, Tail(bytes))

(***************************************************************************)
(* Inputs: word tables (the text handed to from_csv), input characters,    *)
(* texts and bytes.                                                        *)
(***************************************************************************)
TP == <<"t", "p">>

TP_S == <<"t", "p", "_", "S">>

TP_ZH == <<"t", "p", "_", "Z", "H">>

NL == <<"\n">>

CM == <<",">>

W_mi == <<"m", "i">>

W_a == <<"a">>

W_ali == <<"a", "l", "i">>

W_ale == <<"a", "l", "e">>

\* a word of 15 characters and one of 16
W_15 == <<"k", "i", "j", "e", "t", "e", "s", "a", "n", "t", "a", "k", "a", "l", "u">>

W_16 == W_15 \o <<"a">>

\* tp / mi / a: the vocabulary mi = 0x22, a = 0x23
CsvExample == TP \o NL \o W_mi \o NL \o W_a \o NL

\* a, mi and a 15-character word; one variation column, short second row
CsvLong ==
    TP \o CM \o TP_S \o NL \o W_a \o CM \o <<"A">> \o NL \o W_mi \o NL
       \o W_15 \o CM \o <<"K">> \o NL

\* a second dictionary: a again, a 16-character word, and i
CsvSecond == TP \o NL \o W_a \o NL \o W_16 \o NL \o <<"i">> \o NL

\* two variation columns with empty and missing cells
CsvVariants ==
    TP \o CM \o TP_S \o CM \o TP_ZH \o NL
       \o W_mi \o CM \o CM \o <<"M">> \o NL
       \o W_a \o CM \o <<"A">> \o NL
       \o W_ali \o CM \o W_ale \o CM \o <<"L">> \o NL

\* variant spellings that are other words' base spellings; a repeated row
CsvCollide ==
    TP \o CM \o TP_S \o NL
       \o W_a \o CM \o W_mi \o NL
       \o W_mi \o CM \o W_a \o NL
       \o W_ali \o CM \o CM \o NL
       \o W_ali \o CM \o W_a \o NL

\* The number of rows of the large table: more than one byte can address.
BigRows == 256

Digit(n) == <<"0", "1", "2", "3", "4", "5", "6", "7", "8", "9">>[n + 1]

RECURSIVE Numeral(_)
Numeral(n) == IF n < 10 THEN <<Digit(n)>> ELSE Numeral(n \div 10) \o <<Digit(n % 10)>>

\* the rows w<lo>, ..., w<hi - 1>, one per line
RECURSIVE NumberedRows(_, _)
NumberedRows(lo, hi) ==
    IF hi <= lo THEN <<>>
    ELSE IF hi = lo + 1 THEN <<"w">> \o Numeral(lo) \o NL
    ELSE NumberedRows(lo, (lo + hi) \div 2) \o NumberedRows((lo + hi) \div 2, hi)

\* tp / w0 / w1 / ... : BigRows words
CsvBig == TP \o NL \o NumberedRows(0, BigRows)

\* The tables a DictionarySet of the sessions is built from, in list order.
SessionTables == {<<CsvExample>>, <<CsvLong>>, <<CsvExample, CsvSecond>>}

\* The tables of the DictionarySet whose methods are called directly.
CallTables ==
    SessionTables \cup
    {<<CsvVariants>>, <<CsvCollide>>, <<CsvVariants, CsvCollide>>,
     <<CsvCollide, CsvVariants>>, <<CsvBig>>, <<CsvBig, CsvExample>>}

InputChars == {" ", "a", "m", "i"}

\* "mi a", " kijetesantakalu" (a separator and a 15-character word), and a
\* 16-character word
InputTexts == {W_mi \o <<" ">> \o W_a, <<" ">> \o W_15, W_16}

\* 0x00, 0x10, 0x20, 0x21, 0x22, 0x23, 0x25, 0xFF
InputBytes == {0, 16, 32, 33, 34, 35, 37, 255}

InputWords == {W_mi, W_a, W_ali, W_ale, <<"A">>, <<"M">>, <<"L">>, <<"x">>, <<>>, W_16}

\* Calls made on an Encoder (write_character, write_text) in one session.
MaxCalls == 6

\* Sessions living side by side: two Encoders and two Decoders.
EncoderIds == {"e1", "e2"}

DecoderIds == {"d1", "d2"}

SessionIds == EncoderIds \cup DecoderIds

\* Characters or bytes handed to each of the sessions living side by side.
MaxSessionSteps == 2

SessionChars == {" ", "a"}

\* 0x21, 0x22
SessionBytes == {33, 34}

\* Bytes read one by one by a Decoder that reads no encoder's output.
MaxReads == 4

(***************************************************************************)
(* State                                                                   *)
(***************************************************************************)
VARIABLES
    csv,          \* the texts the dictionaries were built from, in list order
    dicts,        \* DICT_SET.base_dictionaries
    encoder,      \* the Encoder: writer, state, unencoded
    enc_status,   \* "live", "dropped" (finalized) or "panicked"
    text,         \* every character handed to the Encoder so far
    calls,        \* number of write_character / write_text calls so far
    decoder,      \* the Decoder: writer, state
    dec_status,   \* "live" or "panicked"
    input,        \* every byte handed to the Decoder so far
    flushes,      \* one record per run of Encoder::encode so far
    call,         \* the last direct call of a DictionarySet method
    sessions      \* Encoders and Decoders living side by side, by name

vars ==
    <<csv, dicts, encoder, enc_status, text, calls, flushes, decoder, dec_status, input, call,
      sessions>>

sessionVars == <<encoder, enc_status, text, calls, flushes, decoder, dec_status, input>>

NoCall ==
    [fn |-> "none", word |-> <<>>, id |-> WordIdentifier(0, 0), variation |-> "Default",
     bytes |-> <<>>, checks |-> TRUE, res |-> Ok(<<>>)]

\* Encoder::new(Vec::new()) / Decoder::new(String::new()) for session s,
\* with the input handed to it so far.
NewSession(s) ==
    [obj |-> IF s \in EncoderIds THEN EncoderNew ELSE DecoderNew,
     status |-> "live", input |-> <<>>]

\* lazy_static PU / DICT_SET: every table parsed by from_csv; the process
\* only proceeds when no from_csv panicked.
InitWith(tables) ==
    /\ csv \in tables
    /\ \A d \in 1..Len(csv) : FromCsv(csv[d]).ok
    /\ dicts = [d \in 1..Len(csv) |-> FromCsv(csv[d]).val]
    /\ encoder = EncoderNew
    /\ enc_status = "live"
    /\ text = <<>>
    /\ calls = 0
    /\ flushes = <<>>
    /\ decoder = DecoderNew
    /\ dec_status = "live"
    /\ input = <<>>
    /\ call = NoCall
    /\ sessions = [s \in SessionIds |-> NewSession(s)]

Init == InitWith(SessionTables)

(***************************************************************************)
(* Sessions.  As in main.rs the Encoder holds the byte buffer until it is  *)
(* dropped, and the Decoder then reads it; a Decoder may also read bytes   *)
(* that no Encoder wrote.                                                  *)
(***************************************************************************)
\* A panic ends the session ("panicked").  When the panic unwinds through
\* the Encoder's owner, Drop runs encode once more on the same buffer and
\* state, which fails on the same lookup and writes nothing.
EncoderStep(r, txt) ==
    /\ encoder' = r.enc
    /\ enc_status' = IF r.ok THEN "live" ELSE "panicked"
    /\ text' = text \o txt
    /\ calls' = calls + 1
    /\ flushes' = flushes \o r.flushed
    /\ UNCHANGED <<csv, dicts, decoder, dec_status, input, call, sessions>>

WriteCharacter(c) ==
    /\ enc_status = "live"
    /\ calls < MaxCalls
    /\ input = <<>>
    /\ \E checks \in OverflowChecks :
          EncoderStep(EncoderWriteCharacter(dicts, encoder, c, checks), <<c>>)

WriteText(txt) ==
    /\ enc_status = "live"
    /\ calls < MaxCalls
    /\ input = <<>>
    /\ \E checks \in OverflowChecks :
          EncoderStep(EncoderWriteText(dicts, encoder, txt, checks), txt)

\* Mutant: the Encoder is dropped without a last flush.
FinalizeNoFlush ==
    /\ enc_status = "live"
    /\ input = <<>>
    /\ enc_status' = "dropped"
    /\ UNCHANGED <<csv, dicts, encoder, flushes, text, calls, decoder, dec_status, input, call,
                   sessions>>

\* impl Drop for Encoder
Finalize ==
    /\ enc_status = "live"
    /\ input = <<>>
    /\ \E checks \in OverflowChecks :
          LET r == EncoderEncode(dicts, encoder, checks)
          IN  /\ encoder' = r.enc
              /\ enc_status' = IF r.ok THEN "dropped" ELSE "panicked"
              /\ flushes' = flushes \o r.flushed
    /\ UNCHANGED <<csv, dicts, text, calls, decoder, dec_status, input, call, sessions>>

DecoderStep(r, bytes) ==
    /\ decoder' = r.dec
    /\ dec_status' = IF r.ok THEN "live" ELSE "panicked"
    /\ input' = input \o bytes
    /\ UNCHANGED <<csv, dicts, encoder, enc_status, text, calls, flushes, call, sessions>>

ReadByte(byte) ==
    /\ dec_status = "live"
    /\ enc_status = "live" /\ calls = 0
    /\ Len(input) < MaxReads
    /\ DecoderStep(DecoderReadByte(dicts, decoder, byte), <<byte>>)

\* main.rs: decoder.read_bytes(&encoded) once the encoder is dropped
ReadBytes ==
    /\ dec_status = "live"
    /\ enc_status = "dropped"
    /\ input = <<>>
    /\ DecoderStep(DecoderReadBytes(dicts, decoder, encoder.writer), encoder.writer)

Next ==
    \/ \E c \in InputChars : WriteCharacter(c)
    \/ \E txt \in InputTexts : WriteText(txt)
    \/ Finalize
    \/ \E byte \in InputBytes : ReadByte(byte)
    \/ ReadBytes

Spec == Init /\ [][Next]_vars

(***************************************************************************)
(* Sessions side by side.  Each Encoder and Decoder owns its writer, its   *)
(* EncodingState and its buffer; every method takes &mut self and reads    *)
(* the one DICT_SET, so a step is one method call on one session, and the  *)
(* steps of different sessions come in any order.  A panic ends the        *)
(* session it strikes.                                                     *)
(***************************************************************************)
SessionStep(s, r, obj, x, done) ==
    /\ sessions' = [sessions EXCEPT ![s] = [obj |-> obj,
                                            status |-> IF r.ok THEN done ELSE "panicked",
                                            input |-> sessions[s].input \o x]]
    /\ UNCHANGED <<csv, dicts, sessionVars, call>>

\* Mutant: the EncodingState is one value shared by all Encoders.
SessionWriteCharacterShared(s, c) ==
    /\ s \in EncoderIds
    /\ sessions[s].status = "live"
    /\ Len(sessions[s].input) < MaxSessionSteps
    /\ \E checks \in OverflowChecks :
          LET r == EncoderWriteCharacter(dicts, sessions[s].obj, c, checks)
          IN  /\ sessions' =
                     [t \in SessionIds |->
                         IF t = s
                         THEN [obj |-> r.enc, status |-> IF r.ok THEN "live" ELSE "panicked",
                               input |-> Append(sessions[s].input, c)]
                         ELSE IF t \in EncoderIds
                         THEN [sessions[t] EXCEPT !.obj.state = r.enc.state]
                         ELSE sessions[t]]
              /\ UNCHANGED <<csv, dicts, sessionVars, call>>

\* Encoder::write_character on session s
SessionWriteCharacter(s, c) ==
    /\ s \in EncoderIds
    /\ sessions[s].status = "live"
    /\ Len(sessions[s].input) < MaxSessionSteps
    /\ \E checks \in OverflowChecks :
          LET r == EncoderWriteCharacter(dicts, sessions[s].obj, c, checks)
          IN  SessionStep(s, r, r.enc, <<c>>, "live")

\* drop of the Encoder of session s
SessionFinalize(s) ==
    /\ s \in EncoderIds
    /\ sessions[s].status = "live"
    /\ \E checks \in OverflowChecks :
          LET r == EncoderEncode(dicts, sessions[s].obj, checks)
          IN  SessionStep(s, r, r.enc, <<>>, "dropped")

\* Decoder::read_byte on session s
SessionReadByte(s, byte) ==
    /\ s \in DecoderIds
    /\ sessions[s].status = "live"
    /\ Len(sessions[s].input) < MaxSessionSteps
    /\ LET r == DecoderReadByte(dicts, sessions[s].obj, byte)
       IN  SessionStep(s, r, r.dec, <<byte>>, "live")

NextSessions ==
    \/ \E s \in EncoderIds, c \in SessionChars : SessionWriteCharacter(s, c)
    \/ \E s \in EncoderIds : SessionFinalize(s)
    \/ \E s \in DecoderIds, byte \in SessionBytes : SessionReadByte(s, byte)

SpecSessions == Init /\ [][NextSessions]_vars

(***************************************************************************)
(* Direct calls of the DictionarySet methods (all pub, on the pub static   *)
(* DICT_SET), each recorded with its arguments and its result.             *)
(***************************************************************************)
\* The identifiers known to the set: a dictionary of the list and a
\* position of its base table.
KnownIdentifiers(ds) ==
    UNION {{WordIdentifier(d, w) : w \in 0..(Len(ds[d + 1].default.words) - 1)} :
              d \in 0..(Len(ds) - 1)}

\* Known identifiers, and the first position past each table and past the list.
InputIdentifiers(ds) ==
    KnownIdentifiers(ds) \cup
    {WordIdentifier(d, Len(ds[d + 1].default.words)) : d \in 0..(Len(ds) - 1)} \cup
    {WordIdentifier(Len(ds), 0)}

InputByteSequences == {<<b>> : b \in 0..255} \cup {<<>>, <<BaseOffset, BaseOffset>>}

\* A method of DICT_SET reads the dictionaries and changes nothing, so one
\* recorded call per behaviour shows all a call can do; the one call
\* that follows another is word_from_bytes on word_to_bytes' result.
Called(c) ==
    /\ call.fn \in {"none", "word_to_bytes"}
    /\ call.fn = "word_to_bytes" => c.fn = "word_from_bytes(word_to_bytes)"
    /\ call' = c
    /\ UNCHANGED <<csv, dicts, sessionVars, sessions>>

CallWordToBytes(id, checks) ==
    Called([NoCall EXCEPT !.fn = "word_to_bytes", !.id = id, !.checks = checks,
                          !.res = WordToBytes(dicts, id, checks)])

CallWordFromBytes(bytes) ==
    Called([NoCall EXCEPT !.fn = "word_from_bytes", !.bytes = bytes,
                          !.res = WordFromBytes(dicts, bytes)])

\* word_from_bytes on the bytes the last word_to_bytes returned
CallDecodeEncoded ==
    /\ call.fn = "word_to_bytes"
    /\ call.res.ok
    /\ Called([call EXCEPT !.fn = "word_from_bytes(word_to_bytes)", !.bytes = call.res.val,
                           !.res = WordFromBytes(dicts, call.res.val)])

CallGetWordVariation(id, variation) ==
    Called([NoCall EXCEPT !.fn = "get_word_variation", !.id = id, !.variation = variation,
                          !.res = GetWordVariation(dicts, id, variation)])

CallGetIdentifierVariation(word, variation) ==
    Called([NoCall EXCEPT !.fn = "get_identifier_variation", !.word = word,
                          !.variation = variation,
                          !.res = Ok(GetIdentifierVariation(dicts, word, variation))])

CallGetIdentifier(word) ==
    Called([NoCall EXCEPT !.fn = "get_identifier", !.word = word,
                          !.res = Ok(GetIdentifier(dicts, word))])

InitCalls == InitWith(CallTables)

NextCalls ==
    \/ \E id \in InputIdentifiers(dicts), checks \in OverflowChecks : CallWordToBytes(id, checks)
    \/ \E bytes \in InputByteSequences : CallWordFromBytes(bytes)
    \/ CallDecodeEncoded
    \/ \E id \in InputIdentifiers(dicts), v \in Variation : CallGetWordVariation(id, v)
    \/ \E word \in InputWords, v \in Variation : CallGetIdentifierVariation(word, v)
    \/ \E word \in InputWords : CallGetIdentifier(word)

SpecCalls == InitCalls /\ [][NextCalls]_vars

(***************************************************************************)
(* The word tables as written in their source text, for stating what the   *)
(* dictionaries are to hold.  Dictionaries d are numbered from 1 here,     *)
(* rows i from 0.                                                          *)
(***************************************************************************)
TableHeader(d) == Split(Lines(csv[d])[1])

TableRows(d) == LET lines == Lines(csv[d]) IN [i \in 1..(Len(lines) - 1) |-> Split(lines[i + 1])]

RowCount(d) == Len(Lines(csv[d])) - 1

TableColumns(d, v) ==
    {j \in 2..Len(TableHeader(d)) : VariationTryFrom(TableHeader(d)[j]) = Ok(v)}

\* the spelling a row gives in column j, <<>> when it gives none
RowCell(row, j) == IF j <= Len(row) THEN row[j] ELSE <<>>

\* the column read for orthography v: the first for the base orthography,
\* 0 when the table has no column for v
ColumnFor(d, v) ==
    IF v = "Default" THEN 1
    ELSE IF TableColumns(d, v) = {} THEN 0 ELSE MaxOf(TableColumns(d, v))

\* the spelling row i gives for orthography v, <<>> when it gives none
TableCell(d, i, v) ==
    IF ColumnFor(d, v) = 0 THEN <<>> ELSE RowCell(TableRows(d)[i + 1], ColumnFor(d, v))

\* the rows of table d that spell s in orthography v; an empty cell of a
\* variation column spells nothing
RowsSpelling(d, s, v) ==
    LET rows == TableRows(d)
        j == ColumnFor(d, v)
    IN  IF j = 0 \/ (v # "Default" /\ s = <<>>) THEN {}
        ELSE {i \in 0..(Len(rows) - 1) : RowCell(rows[i + 1], j) = s}

RECURSIVE RowsBefore(_)
RowsBefore(d) == IF d <= 1 THEN 0 ELSE RowsBefore(d - 1) + RowCount(d - 1)

\* position of row i of table d in the concatenation of all tables
GlobalIndex(d, i) == RowsBefore(d) + i

IsKnown(id) == id.dict < Len(csv) /\ id.word < RowCount(id.dict + 1)

(***************************************************************************)
(* Claims on the DictionarySet methods, under SpecCalls.                   *)
(***************************************************************************)

\* C2 (as claimed): for every known identifier, word_from_bytes applied to
\* the bytes word_to_bytes returned gives the identifier back.
C2_IdentifierRoundTrip ==
    (call.fn = "word_from_bytes(word_to_bytes)" /\ IsKnown(call.id))
        => (call.res.ok /\ call.res.val = call.id)

\* C5 (as claimed): at a known position to which the table gives no
\* spelling in an orthography, get_word_variation returns the base spelling
\* of that position.
C5_SpellingFallback ==
    (/\ call.fn = "get_word_variation"
     /\ IsKnown(call.id)
     /\ call.variation # "Default"
     /\ TableCell(call.id.dict + 1, call.id.word, call.variation) = <<>>)
        => call.res = Ok(TableCell(call.id.dict + 1, call.id.word, "Default"))

\* C6 (as claimed): every variation table is as long as the base table and
\* holds, at each row's position, the spelling that row gives.
C6_VariantTablesAligned ==
    \A d \in 1..Len(dicts) : \A v \in DOMAIN dicts[d].variations :
        /\ Len(dicts[d].variations[v].words) = Len(dicts[d].default.words)
        /\ \A i \in 0..(RowCount(d) - 1) :
              TableCell(d, i, v) # <<>>
                  => dicts[d].variations[v].words[i + 1] = Some(TableCell(d, i, v))

\* The first table, in list order, with a row spelling s in orthography v
\* (0 when there is none).
FirstTableSpelling(s, v) ==
    LET hits == {d \in 1..Len(csv) : RowsSpelling(d, s, v) # {}}
    IN  IF hits = {} THEN 0 ELSE MinOf(hits)

\* r is a hit for s in orthography v of the first table that has one.
IsFirstHit(r, s, v) ==
    /\ r # None
    /\ r[1].dict + 1 = FirstTableSpelling(s, v)
    /\ r[1].word \in RowsSpelling(r[1].dict + 1, s, v)

\* C7: get_identifier_variation returns the first variant-table hit of a
\* non-default orthography when there is one, else the first base-table
\* hit, else nothing; the default orthography searches the base tables only.
C7_LookupFallback ==
    call.fn = "get_identifier_variation" =>
        LET s == call.word
            v == call.variation
            r == call.res.val
        IN  IF v # "Default" /\ FirstTableSpelling(s, v) # 0 THEN IsFirstHit(r, s, v)
            ELSE IF FirstTableSpelling(s, "Default") # 0 THEN IsFirstHit(r, s, "Default")
            ELSE r = None

\* C7 witness: a variant-table hit for a spelling that is also the base
\* spelling of another word.
C7_Witness ==
    /\ call.fn = "get_identifier_variation"
    /\ call.variation # "Default"
    /\ FirstTableSpelling(call.word, call.variation) # 0
    /\ FirstTableSpelling(call.word, "Default") # 0
    /\ IsFirstHit(call.res.val, call.word, call.variation)
    /\ ~IsFirstHit(call.res.val, call.word, "Default")

\* C8 (as claimed): word_to_bytes returns the one byte global index + 0x22
\* when that fits in a byte, and fails when it does not.
C8_SingleByteRange ==
    (call.fn = "word_to_bytes" /\ IsKnown(call.id)) =>
        LET sum == GlobalIndex(call.id.dict + 1, call.id.word) + BaseOffset
        IN  IF sum <= 255 THEN call.res = Ok(<<sum>>) ELSE ~call.res.ok

(***************************************************************************)
(* Claims on the Encoder / Decoder sessions, under Spec.                   *)
(***************************************************************************)
\* the words of a text: what stands between its spaces
TextWords(txt) == SplitAt(txt, " ")

IsBaseWord(w) == FirstTableSpelling(w, "Default") # 0

\* A text made of base words separated by exactly one space, with no
\* leading or trailing space.
WellFormedText(txt) ==
    /\ txt # <<>>
    /\ \A k \in 1..Len(TextWords(txt)) : IsBaseWord(TextWords(txt)[k])

\* No word of the text is cut by the flush at FlushLength buffered
\* characters: the first word has at most FlushLength characters, a later
\* one, buffered behind its separator, at most FlushLength - 1.
WordsFitBuffer(txt) ==
    \A k \in 1..Len(TextWords(txt)) :
        Len(TextWords(txt)[k]) <= (IF k = 1 THEN FlushLength ELSE FlushLength - 1)

\* The bytes that stand for word w: 0x22 + the global index of a row that
\* spells w in the first table holding it.
WordBytes(w) ==
    LET d == FirstTableSpelling(w, "Default")
    IN  {BaseOffset + GlobalIndex(d, i) : i \in RowsSpelling(d, w, "Default")}

\* The encoder was finalized, and the decoder has read exactly its bytes.
RoundTripped == enc_status = "dropped" /\ input = encoder.writer

TextRoundTrip ==
    /\ enc_status # "panicked"
    /\ RoundTripped => (dec_status = "live" /\ decoder.writer = text)

\* C1 (as claimed): any text of base words separated by single spaces is
\* encoded without failure, and decoding the bytes writes the text again.
C1_Original == WellFormedText(text) => TextRoundTrip

\* C1 (amended): the same, for texts whose first word has at most 16
\* characters and whose later words have at most 15.
C1_TextRoundTrip == (WellFormedText(text) /\ WordsFitBuffer(text)) => TextRoundTrip

\* C1 witness: a round trip of a text whose second word has 15 characters.
C1_Witness ==
    /\ WellFormedText(text)
    /\ Len(TextWords(text)) >= 2
    /\ TextWords(text)[2] = W_15
    /\ RoundTripped
    /\ decoder.writer = text

\* One byte per word of the text, the byte of that word, in order.
OneBytePerWord ==
    /\ Len(encoder.writer) = Len(TextWords(text))
    /\ \A k \in 1..Len(encoder.writer) : encoder.writer[k] \in WordBytes(TextWords(text)[k])

\* The example of the vocabulary mi = 0x22, a = 0x23.
ExampleVocabulary ==
    csv = <<CsvExample>> =>
        /\ (enc_status = "dropped" /\ text = W_mi \o <<" ">> \o W_a)
               => encoder.writer = <<34, 35>>
        /\ (enc_status = "dropped" /\ text = W_mi \o <<" ">> \o W_mi)
               => encoder.writer = <<34, 34>>
        /\ (dec_status = "live" /\ input = <<34, 35>>)
               => decoder.writer = W_mi \o <<" ">> \o W_a

\* C3 (as claimed): a text of n base words separated by single spaces is
\* encoded, on finalize, to n bytes, each 0x22 + its word's global index.
C3_Original ==
    WellFormedText(text) =>
        /\ enc_status # "panicked"
        /\ enc_status = "dropped" => OneBytePerWord

\* C3 (amended): the same, for texts whose first word has at most 16
\* characters and whose later words have at most 15; and the example
\* vocabulary encodes and decodes as stated.
C3_OneBytePerWord ==
    /\ (WellFormedText(text) /\ WordsFitBuffer(text)) =>
           /\ enc_status # "panicked"
           /\ enc_status = "dropped" => OneBytePerWord
    /\ ExampleVocabulary

\* C3 witness: three words encoded, the last one a word of the second
\* dictionary of the list.
C3_Witness ==
    /\ WellFormedText(text)
    /\ enc_status = "dropped"
    /\ Len(encoder.writer) = 3
    /\ FirstTableSpelling(TextWords(text)[3], "Default") = 2
    /\ OneBytePerWord

\* C4 (as claimed): two base words written with no space between them are
\* encoded as the first word's byte, 0x21, the second word's byte, and
\* decoding these writes the two words with no space.
C4_AttachProtocol ==
    \A d1 \in 1..Len(csv), d2 \in 1..Len(csv) :
      \A i1 \in 0..(RowCount(d1) - 1), i2 \in 0..(RowCount(d2) - 1) :
        LET w1 == TableCell(d1, i1, "Default")
            w2 == TableCell(d2, i2, "Default")
        IN  (text = w1 \o w2 /\ enc_status # "live") =>
                /\ enc_status = "dropped"
                /\ Len(encoder.writer) = 3
                /\ encoder.writer[1] \in WordBytes(w1)
                /\ encoder.writer[2] = AttachByte
                /\ encoder.writer[3] \in WordBytes(w2)
                /\ RoundTripped => decoder.writer = text

\* the fragment a flush resolves: the buffer, less the separator it owed
FlushFragment(f) ==
    IF f.owed /\ f.buffer # <<>> /\ Head(f.buffer) = " " THEN Tail(f.buffer) ELSE f.buffer

IsUnknownWord(w, v) == FirstTableSpelling(w, v) = 0 /\ FirstTableSpelling(w, "Default") = 0

\* C9: a flush whose fragment is in no dictionary fails, and writes nothing:
\* the writer is as the flush found it, then and ever after.
C9_UnknownWord ==
    \A k \in 1..Len(flushes) :
        IsUnknownWord(FlushFragment(flushes[k]), encoder.state.variation) =>
            /\ ~flushes[k].ok
            /\ flushes[k].after = flushes[k].before
            /\ k = Len(flushes)
            /\ enc_status = "panicked"
            /\ encoder.writer = flushes[k].before

\* C9 witness: an unknown fragment met when a separator was owed and the
\* buffer did not begin with a space, after earlier words were written.
C9_Witness ==
    /\ flushes # <<>>
    /\ LET f == flushes[Len(flushes)]
       IN  /\ IsUnknownWord(FlushFragment(f), encoder.state.variation)
           /\ f.owed
           /\ f.buffer # <<>>
           /\ Head(f.buffer) # " "
           /\ f.before # <<>>

\* C10: a Decoder step whose byte is in 0x00..0x20 fails and changes
\* neither the output nor the session state.
C10_InvalidByte ==
    [][(dec_status = "live" /\ input' # input /\ input'[Len(input) + 1] \in 0..32)
          => (dec_status' = "panicked" /\ decoder' = decoder)]_vars

\* C10 witness: an invalid byte met after a word was written, with a
\* separator owed.
C10_Witness ==
    /\ dec_status = "panicked"
    /\ Len(input) >= 2
    /\ input[Len(input)] \in 0..32
    /\ decoder.writer # <<>>
    /\ decoder.state.prepend_space

\* The text is words already emitted, each followed by one space, and then
\* a run of non-space characters: every word before the last is a base
\* word that no flush cut.
RunFollowsWords ==
    LET words == TextWords(text)
    IN  \A k \in 1..(Len(words) - 1) :
            /\ IsBaseWord(words[k])
            /\ Len(words[k]) <= (IF k = 1 THEN FlushLength ELSE FlushLength - 1)

\* The run of non-space characters the text ends with.
LastRun == TextWords(text)[Len(TextWords(text))]

\* The flush that is the first to resolve characters of the last run comes
\* once the run has more than `limit` characters, no sooner, and resolves
\* exactly the first `limit` characters of the run as a word of their own:
\* a hit when they spell a word, a failure when they do not.
RunFlushedAt(limit) ==
    LET n == Len(TextWords(text))
    IN  /\ (enc_status = "live" /\ Len(LastRun) <= limit) => Len(flushes) = n - 1
        /\ Len(LastRun) > limit =>
               /\ Len(flushes) >= n
               /\ flushes[n].word = SubSeq(LastRun, 1, limit)
               /\ FlushFragment(flushes[n]) = SubSeq(LastRun, 1, limit)
               /\ flushes[n].ok = IsBaseWord(SubSeq(LastRun, 1, limit))

\* C11 (as claimed): a run of 17 non-space characters is flushed when its
\* 17th character arrives, and that flush resolves the first 16 characters
\* of the run, at the start of the input and after a separator space alike.
C11_Original == RunFollowsWords => RunFlushedAt(FlushLength)

\* C11 (amended): at the start of the input the flush comes with the 17th
\* character of the run and resolves its first 16 characters; after a
\* separator space it comes with the 16th character and resolves the
\* first 15, the separator being one of the 16 buffered characters.
C11_BufferBoundFlush ==
    RunFollowsWords =>
        RunFlushedAt(IF Len(TextWords(text)) = 1 THEN FlushLength ELSE FlushLength - 1)

\* C11 witness: a run after two emitted words, cut after 15 characters
\* that spell a word.
C11_Witness ==
    /\ RunFollowsWords
    /\ Len(TextWords(text)) = 3
    /\ Len(LastRun) >= FlushLength
    /\ Len(flushes) >= 3
    /\ flushes[3].ok
    /\ flushes[3].word = W_15

\* C11 witness at the start of the input: a run of 17 characters whose
\* first 16 spell a word.
C11_WitnessStart ==
    /\ Len(TextWords(text)) = 1
    /\ Len(text) = FlushLength + 1
    /\ flushes # <<>>
    /\ flushes[1].ok
    /\ flushes[1].word = W_16

\* The base spellings of all rows of all tables, in list order: position
\* g + 1 holds the word of global index g.
RECURSIVE SpellingsUpTo(_)
SpellingsUpTo(d) ==
    IF d = 0 THEN <<>>
    ELSE SpellingsUpTo(d - 1) \o [i \in 1..RowCount(d) |-> TableCell(d, i - 1, "Default")]

VocabularySpellings == SpellingsUpTo(Len(csv))

\* a byte that stands for a word of the vocabulary
IsWordByte(b) == b >= BaseOffset /\ b - BaseOffset < Len(VocabularySpellings)

ByteSpelling(b) == VocabularySpellings[b - BaseOffset + 1]

\* every byte read so far is 0x21 or the byte of a word
ValidInput == \A k \in 1..Len(input) : input[k] = AttachByte \/ IsWordByte(input[k])

\* a word was read before byte k, and no 0x21 since that word
SpaceOwedAt(k) ==
    \E j \in 1..(k - 1) :
        /\ IsWordByte(input[j])
        /\ \A m \in (j + 1)..(k - 1) : input[m] # AttachByte

\* what byte k is to write
DecodedPiece(k) ==
    IF input[k] = AttachByte THEN <<>>
    ELSE (IF SpaceOwedAt(k) THEN <<" ">> ELSE <<>>) \o ByteSpelling(input[k])

RECURSIVE DecodedUpTo(_)
DecodedUpTo(k) == IF k = 0 THEN <<>> ELSE DecodedUpTo(k - 1) \o DecodedPiece(k)

\* C12: for valid bytes the Decoder's output is, byte by byte, nothing for
\* 0x21 and for a word its spelling, preceded by one space exactly when a
\* word was read earlier and no 0x21 since; the output never begins with a
\* space, and the separator is owed exactly when the last byte was a word.
C12_SeparatorProtocol ==
    ValidInput =>
        /\ dec_status = "live"
        /\ decoder.writer = DecodedUpTo(Len(input))
        /\ decoder.writer = <<>> \/ Head(decoder.writer) # " "
        /\ decoder.state.prepend_space = SpaceOwedAt(Len(input) + 1)

\* C12 witness: two words with two consecutive 0x21 between them, written
\* with no space.
C12_Witness ==
    /\ ValidInput
    /\ Len(input) = 4
    /\ IsWordByte(input[1])
    /\ input[2] = AttachByte
    /\ input[3] = AttachByte
    /\ IsWordByte(input[4])
    /\ decoder.writer = ByteSpelling(input[1]) \o ByteSpelling(input[4])

\* Before finalize the trailing word is pending, not emitted: one byte was
\* written for every word but the last, and the buffer holds the last word
\* (behind its separator, when it is not the first).
TrailingWordPending ==
    LET words == TextWords(text)
        n == Len(words)
    IN  /\ Len(encoder.writer) = n - 1
        /\ \A k \in 1..(n - 1) : encoder.writer[k] \in WordBytes(words[k])
        /\ encoder.unencoded = (IF n = 1 THEN <<>> ELSE <<" ">>) \o words[n]

\* What finalize is to give for the text written so far.
FinalizeEmitsTrailingWord ==
    /\ enc_status # "panicked"
    /\ enc_status = "live" => TrailingWordPending
    /\ enc_status = "dropped" => (encoder.unencoded = <<>> /\ OneBytePerWord)

\* C13 (as claimed): the trailing word of the input is not emitted by
\* write_character / write_text; finalize emits it, and after finalize the
\* buffer is empty and one word byte stands for every word, in order.
C13_Original == WellFormedText(text) => FinalizeEmitsTrailingWord

\* C13 (amended): the same, for inputs whose first word has at most 16
\* characters and whose later words have at most 15.
C13_Finalize == (WellFormedText(text) /\ WordsFitBuffer(text)) => FinalizeEmitsTrailingWord

\* C13 witness: finalize has emitted the second word of a two-word input
\* from the buffer that held it behind its separator.
C13_Witness ==
    /\ WellFormedText(text)
    /\ Len(TextWords(text)) = 2
    /\ enc_status = "dropped"
    /\ Len(flushes) = 2
    /\ flushes[2].buffer = <<" ">> \o TextWords(text)[2]
    /\ Len(flushes[2].before) = 1
    /\ Len(encoder.writer) = 2
    /\ encoder.unencoded = <<>>

\* C14 (as claimed): every flush, one that hits and one that misses alike,
\* leaves the pending buffer empty.
C14_BufferEmptyAfterFlush ==
    /\ \A k \in 1..Len(flushes) : flushes[k].left = <<>>
    /\ enc_status \in {"dropped", "panicked"} => encoder.unencoded = <<>>

(***************************************************************************)
(* Appending a dictionary, under SpecCalls.                                *)
(***************************************************************************)
\* the tables appended at the end of the list
AppendTables == {CsvExample, CsvSecond, CsvCollide}

\* The DictionarySet whose base_dictionaries is that of ds with the
\* dictionary of one more table at the end.
Appended(ds, table) == ds \o <<FromCsv(table).val>>

\* C15: with a dictionary appended at the end of the list, word_to_bytes
\* gives every identifier of the original set the byte it gave before,
\* word_from_bytes gives every byte that decoded before the identifier it
\* gave before, and get_identifier gives every spelling that resolved
\* before the identifier it gave before.
C15_AppendStability ==
    \A table \in AppendTables :
        LET longer == Appended(dicts, table)
        IN  /\ (call.fn = "word_to_bytes" /\ IsKnown(call.id) /\ call.res.ok)
                   => WordToBytes(longer, call.id, call.checks) = call.res
            /\ (call.fn = "word_from_bytes" /\ call.res.ok)
                   => WordFromBytes(longer, call.bytes) = call.res
            /\ (call.fn = "get_identifier" /\ call.res.val # None)
                   => GetIdentifier(longer, call.word) = call.res.val

\* C15 witness: a spelling resolved in the second dictionary of a list,
\* which a dictionary appended to the list spells too.
C15_Witness ==
    /\ call.fn = "get_identifier"
    /\ call.res.val # None
    /\ call.res.val[1].dict = 1
    /\ \E table \in AppendTables :
          /\ GetIdentifier(<<FromCsv(table).val>>, call.word) # None
          /\ GetIdentifier(Appended(dicts, table), call.word) = call.res.val

(***************************************************************************)
(* Sessions side by side, under SpecSessions.                              *)
(***************************************************************************)
\* What an Encoder alone writes for the characters session s was handed,
\* finalized or not as session s was.
EncoderAlone(s) ==
    LET written == EncoderWriteText(dicts, EncoderNew, sessions[s].input, TRUE)
        final == EncoderEncode(dicts, written.enc, TRUE)
    IN  IF ~written.ok THEN [status |-> "panicked", obj |-> written.enc]
        ELSE IF sessions[s].status = "live" THEN [status |-> "live", obj |-> written.enc]
        ELSE [status |-> IF final.ok THEN "dropped" ELSE "panicked", obj |-> final.enc]

\* What a Decoder alone writes for the bytes session s was handed.
DecoderAlone(s) ==
    LET read == DecoderReadBytes(dicts, DecoderNew, sessions[s].input)
    IN  [status |-> IF read.ok THEN "live" ELSE "panicked", obj |-> read.dec]

\* Every session stands where it would stand had it run alone on its input.
SessionsAsAlone ==
    \A s \in SessionIds :
        LET alone == IF s \in EncoderIds THEN EncoderAlone(s) ELSE DecoderAlone(s)
        IN  /\ sessions[s].status = alone.status
            /\ sessions[s].obj = alone.obj

\* A step leaves the dictionary data as it was, and changes one session.
StepTouchesOneSession ==
    /\ dicts' = dicts
    /\ csv' = csv
    /\ \A s \in SessionIds, t \in SessionIds :
          (s # t /\ sessions'[s] # sessions[s]) => sessions'[t] = sessions[t]

\* C16: however the steps of the sessions interleave, no step changes the
\* dictionary data or a session other than its own, and every session's
\* output, buffer and separator-owed flag are those it has when run alone
\* on the same input.
C16_SessionIndependence == [](SessionsAsAlone) /\ [][StepTouchesOneSession]_vars

\* C16 witness: two Encoders and a Decoder each hold a word written and a
\* separator owed, one Encoder after a different input than the other.
C16_Witness ==
    /\ sessions["e1"].input = <<"a", " ">>
    /\ sessions["e2"].input = <<"a">>
    /\ sessions["e2"].status = "dropped"
    /\ sessions["e1"].obj.writer = sessions["e2"].obj.writer
    /\ sessions["e1"].obj.unencoded = <<" ">>
    /\ sessions["d1"].obj.writer # <<>>
    /\ sessions["d2"].input = <<AttachByte>>

(***************************************************************************)
(* The Encoder's byte stream, under Spec.                                  *)
(***************************************************************************)
\* the bytes flush f wrote
FlushOutput(f) == SubSeq(f.after, Len(f.before) + 1, Len(f.after))

\* flush f found a separator owed and a buffer not beginning with a space
MissingSeparator(f) == f.owed /\ ~(f.buffer # <<>> /\ Head(f.buffer) = " ")

\* C17: in the bytes an Encoder wrote, 0x21 is never the first byte, never
\* the last, and always followed at once by a word byte; all bytes are
\* written by flushes, and a flush writes 0x21 only when it found a
\* separator owed and a buffer not beginning with a space, and then once,
\* before its word byte.
C17_AttachPlacement ==
    LET w == encoder.writer
    IN  /\ w # <<>> => (w[1] # AttachByte /\ w[Len(w)] # AttachByte)
        /\ \A k \in 1..(Len(w) - 1) : w[k] = AttachByte => IsWordByte(w[k + 1])
        /\ w = (IF flushes = <<>> THEN <<>> ELSE flushes[Len(flushes)].after)
        /\ \A k \in 1..Len(flushes) :
              LET f == flushes[k]
                  out == FlushOutput(f)
              IN  /\ f.before = (IF k = 1 THEN <<>> ELSE flushes[k - 1].after)
                  /\ f.after = f.before \o out
                  /\ (\E j \in 1..Len(out) : out[j] = AttachByte) => MissingSeparator(f)
                  /\ \/ out = <<>> /\ ~f.ok
                     \/ Len(out) = 1 /\ IsWordByte(out[1]) /\ ~MissingSeparator(f)
                     \/ /\ Len(out) = 2
                        /\ out[1] = AttachByte
                        /\ IsWordByte(out[2])
                        /\ MissingSeparator(f)

\* C17 witness: a finalized stream of a word, 0x21 and a word, the 0x21
\* written by a flush that found a separator owed and no leading space.
C17_Witness ==
    /\ enc_status = "dropped"
    /\ Len(encoder.writer) >= 3
    /\ encoder.writer[Len(encoder.writer) - 1] = AttachByte
    /\ MissingSeparator(flushes[Len(flushes)])
    /\ Len(FlushOutput(flushes[Len(flushes)])) = 2

\* C18: the pending buffer never holds more than 16 characters, and after
\* every write_character that returned it holds at least one.
C18_BufferBound ==
    /\ Len(encoder.unencoded) <= FlushLength
    /\ (enc_status = "live" /\ text # <<>>) => Len(encoder.unencoded) >= 1

\* C18 witness: a full buffer of a separator space and 15 characters, and
\* the buffer of one character left by the write_character that found it.
C18_Witness ==
    /\ enc_status = "live"
    /\ Len(encoder.unencoded) = 1
    /\ flushes # <<>>
    /\ Len(flushes[Len(flushes)].buffer) = FlushLength
    /\ Head(flushes[Len(flushes)].buffer) = " "
    /\ flushes[Len(flushes)].ok

\* the encode has failed, with nothing written after `written`
FailedWith(written) == enc_status = "panicked" /\ encoder.writer = written

\* C19: when the empty string is no dictionary word, a flush whose
\* fragment is empty fails and writes nothing; so fails an Encoder
\* finalized with no character written, an input beginning with a space,
\* an input with two spaces in a row, and an input ending with a space
\* when it is finalized.
C19_EmptyFragment ==
    ~IsBaseWord(<<>>) =>
        /\ \A k \in 1..Len(flushes) :
              FlushFragment(flushes[k]) = <<>> =>
                  /\ ~flushes[k].ok
                  /\ k = Len(flushes)
                  /\ FailedWith(flushes[k].before)
        /\ (text = <<>> /\ enc_status # "live") => FailedWith(<<>>)
        /\ (text # <<>> /\ Head(text) = " ") => FailedWith(<<>>)
        /\ (\E k \in 1..(Len(text) - 1) : text[k] = " " /\ text[k + 1] = " ")
               => enc_status = "panicked"
        /\ (text # <<>> /\ text[Len(text)] = " " /\ enc_status # "live")
               => enc_status = "panicked"

\* C19 witness: the second of two spaces in a row after an emitted word:
\* the flush finds the separator alone in the buffer and fails.
C19_Witness ==
    /\ Len(text) >= 3
    /\ text[Len(text)] = " "
    /\ text[Len(text) - 1] = " "
    /\ enc_status = "panicked"
    /\ encoder.writer # <<>>
    /\ flushes[Len(flushes)].buffer = <<" ">>
    /\ flushes[Len(flushes)].owed
    /\ ~flushes[Len(flushes)].ok

\* C20: a Decoder step on a byte >= 0x22 whose global index is not below
\* the combined word count fails, writes nothing and leaves the
\* separator-owed flag as it was; a step on the byte of a word writes that
\* one word, behind the space when one was owed, and owes a separator.
C20_OutOfVocabularyByte ==
    [][(dec_status = "live" /\ Len(input') = Len(input) + 1
          /\ input'[Len(input')] >= BaseOffset)
          => LET byte == input'[Len(input')]
             IN  IF byte - BaseOffset >= Len(VocabularySpellings)
                 THEN dec_status' = "panicked" /\ decoder' = decoder
                 ELSE /\ dec_status' = "live"
                      /\ decoder'.writer =
                             decoder.writer
                                \o (IF decoder.state.prepend_space THEN <<" ">> ELSE <<>>)
                                \o ByteSpelling(byte)
                      /\ decoder'.state.prepend_space]_vars

\* C20 witness: a byte past the vocabulary met after a word was written,
\* with a separator owed.
C20_Witness ==
    /\ dec_status = "panicked"
    /\ Len(input) >= 2
    /\ input[Len(input)] >= BaseOffset + Len(VocabularySpellings)
    /\ decoder.writer # <<>>
    /\ decoder.state.prepend_space

====
